---- MODULE Spec2Model ----
(***************************************************************************)
(* A model of shortcodes.py 2.1.0: the tokenizer, the argument lexer, the  *)
(* stack-based tree builder and the renderer of Parser.parse.              *)
(*                                                                         *)
(* A Python str is a sequence of one-character strings.  Python's None is  *)
(* the value None below, which no str equals.                              *)
(***************************************************************************)
EXTENDS Integers, Sequences, FiniteSets, TLC

VARIABLES
    globaltags,   \* shortcodes.globaltags: tag -> [func, endtag]
    globalends,   \* shortcodes.globalends: list of end-tags
    keywords,     \* the keyword arguments Parser(...) was called with
    self,         \* the Parser instance (its attributes), once constructed
    registered,   \* how many register calls were made since the module was loaded
    results,      \* what the earlier parse calls of the program returned or raised
    waiting,      \* the parse calls that are not running now: their local state
    pc,           \* where the program is: new, ready, tokens, render, done, raised
    text,         \* parse(): the text argument
    context,      \* parse(): the context argument
    tags,         \* parse(): merged local copy of the tag registries
    ends,         \* parse(): merged local copy of the end-tag lists
    tokens,       \* parse(): the token stream of tokenize(text)
    ti,           \* parse(): index of the next token of the stream
    nodes,        \* the Node objects of this call, by identity (index)
    stack,        \* parse(): stack of in-scope nodes (identities)
    expecting,    \* parse(): stack of expected end-tags
    frames,       \* the active render() calls, outermost first
    calls,        \* every handler invocation made so far, in order
    output,       \* the value parse() returned (None before it returns)
    error,        \* the exception that left the program (NoError if none)
    a_args,       \* parse_args(): the argument string
    a_src,        \* the arguments a_args was written from
    a_pos,        \* parse_args(): where finditer resumes scanning
    a_pargs,      \* parse_args(): pargs
    a_kwargs,     \* parse_args(): kwargs
    a_pc          \* parse_args(): idle, scan, done, raised

vars == <<globaltags, globalends, keywords, self, registered, results,
          waiting, pc, text, context, tags, ends, tokens, ti, nodes, stack, expecting,
          frames, calls, output, error,
          a_args, a_src, a_pos, a_pargs, a_kwargs, a_pc>>

parse_vars == <<globaltags, globalends, keywords, self, registered, results,
                waiting, pc, text, context, tags, ends, tokens, ti, nodes, stack,
                expecting, frames, calls, output, error>>

args_vars == <<a_args, a_src, a_pos, a_pargs, a_kwargs, a_pc>>

----------------------------------------------------------------------------
(* Python values and str operations.                                       *)

None == <<"None">>

Truthy(v) == v # None /\ v # <<>>

\* Python's `a or b`.
Or(a, b) == IF Truthy(a) THEN a ELSE b

\* str(v) and '%s' % v for a str or None.
Str(v) == IF v = None THEN <<"N", "o", "n", "e">> ELSE v

Whitespace == {" ", "\n", "\t"}

Last(s) == s[Len(s)]

Front(s) == SubSeq(s, 1, Len(s) - 1)

\* s[i - 1:] of Python, for the 1-based index i.
From(s, i) == SubSeq(s, i, Len(s))

\* s.startswith(p, i - 1)
StartsAt(s, i, p) ==
    /\ i + Len(p) - 1 <= Len(s)
    /\ SubSeq(s, i, i + Len(p) - 1) = p

StartsWith(s, p) == StartsAt(s, 1, p)

\* The index of the last character of the longest run of characters of S
\* that starts at i (i - 1 when s[i] is not in S).
RECURSIVE RunIn(_, _, _)
RunIn(s, i, S) ==
    IF i <= Len(s) /\ s[i] \in S THEN RunIn(s, i + 1, S) ELSE i - 1

\* The same for the characters that are not in S.
RECURSIVE RunNotIn(_, _, _)
RunNotIn(s, i, S) ==
    IF i <= Len(s) /\ s[i] \notin S THEN RunNotIn(s, i + 1, S) ELSE i - 1

\* s.strip()
Strip(s) ==
    LET a == RunIn(s, 1, Whitespace) + 1
        b == CHOOSE j \in 0..Len(s) :
                 /\ \A k \in (j + 1)..Len(s) : s[k] \in Whitespace
                 /\ (j = 0 \/ s[j] \notin Whitespace)
    IN  IF a > Len(s) THEN <<>> ELSE SubSeq(s, a, b)

\* ''.join(parts)
RECURSIVE Join(_)
Join(parts) ==
    IF parts = <<>> THEN <<>> ELSE Head(parts) \o Join(Tail(parts))

----------------------------------------------------------------------------
(* decode(): bytes(s, 'utf-8').decode('unicode_escape').  The model's      *)
(* characters are ASCII (utf-8 then leaves them as they are) and its       *)
(* inputs hold, after a backslash, only the characters handled here.       *)

NoValue == [raised |-> FALSE, value |-> <<>>, exc |-> "None"]

Returned(v) == [NoValue EXCEPT !.value = v]

Raised(e) == [NoValue EXCEPT !.raised = TRUE, !.exc = e]

\* The one-character escapes of the unicode_escape codec.
SimpleEscape == [c \in {"\\", "\"", "'", "n", "t"} |->
    CASE c = "n" -> "\n"
      [] c = "t" -> "\t"
      [] OTHER -> c]

HexDigits == {"0", "1", "2", "3", "4", "5", "6", "7", "8", "9",
              "a", "b", "c", "d", "e", "f", "A", "B", "C", "D", "E", "F"}

\* chr(int(h, 16)) for the \xHH escapes the model's inputs may hold.
HexChar == [h \in {<<"2", "0">>, <<"3", "0">>} |->
    IF h = <<"2", "0">> THEN " " ELSE "0"]

RECURSIVE decode(_)
decode(s) ==
    LET Then(c, rest) ==
            LET r == decode(rest)
            IN  IF r.raised THEN r ELSE Returned(c \o r.value)
    IN  IF s = <<>> THEN Returned(<<>>)
        ELSE IF s[1] # "\\" THEN Then(<<s[1]>>, Tail(s))
        ELSE IF Len(s) = 1 THEN Raised("UnicodeDecodeError")
        ELSE IF s[2] \in DOMAIN SimpleEscape
             THEN Then(<<SimpleEscape[s[2]]>>, From(s, 3))
        ELSE IF s[2] = "x"
             THEN IF Len(s) >= 4 /\ s[3] \in HexDigits /\ s[4] \in HexDigits
                  THEN Then(<<HexChar[<<s[3], s[4]>>]>>, From(s, 5))
                  ELSE Raised("UnicodeDecodeError")
        \* an unknown escape is kept, backslash included
        ELSE Then(<<"\\", s[2]>>, From(s, 3))

----------------------------------------------------------------------------
(* Shortcode.argregex and Shortcode.parse_args.                            *)

\* [^\s'"=] is every character but these.
KeyStop == Whitespace \cup {"'", "\"", "="}

\* (?:[^\\q]|\\.)* then q, scanned from j: the index of the closing quote q,
\* or 0 when the quoted alternative cannot match ('.' is no line break).
RECURSIVE QuoteScan(_, _, _)
QuoteScan(s, j, q) ==
    IF j > Len(s) THEN 0
    ELSE IF s[j] = q THEN j
    ELSE IF s[j] = "\\"
         THEN IF j + 1 <= Len(s) /\ s[j + 1] # "\n"
              THEN QuoteScan(s, j + 2, q)
              ELSE 0
    ELSE QuoteScan(s, j + 1, q)

\* "..." or '...' at i: the index of its closing quote, or 0.
Quoted(s, i) ==
    IF i <= Len(s) /\ s[i] \in {"\"", "'"} THEN QuoteScan(s, i + 1, s[i]) ELSE 0

NoMatch == [end |-> 0, g1 |-> None, g2 |-> None, g3 |-> None, g4 |-> None,
            g5 |-> None, g6 |-> None, g7 |-> None]

\* The quoted alternative's groups 2, 3 and 4 for the quotes at a and b.
QuotedGroups(m, s, a, b) ==
    [m EXCEPT !.end = b,
              !.g2 = SubSeq(s, a, b),
              !.g3 = IF s[a] = "\"" THEN SubSeq(s, a + 1, b - 1) ELSE None,
              !.g4 = IF s[a] = "'" THEN SubSeq(s, a + 1, b - 1) ELSE None]

\* argregex.match(s, i - 1), for s[i] not a whitespace character: the three
\* alternatives in the order the pattern lists them.
argregex(s, i) ==
    LET k == RunNotIn(s, i, KeyStop)
        hasKey == k >= i /\ k + 1 <= Len(s) /\ s[k + 1] = "="
        qk == IF hasKey THEN Quoted(s, k + 2) ELSE 0
        q0 == Quoted(s, i)
        v == IF hasKey THEN RunNotIn(s, k + 2, Whitespace) ELSE 0
    IN  IF qk > 0
        THEN QuotedGroups([NoMatch EXCEPT !.g1 = SubSeq(s, i, k)], s, k + 2, qk)
        ELSE IF q0 > 0 THEN QuotedGroups(NoMatch, s, i, q0)
        ELSE IF hasKey /\ v >= k + 2
             THEN [NoMatch EXCEPT !.end = v,
                                  !.g5 = SubSeq(s, i, k),
                                  !.g6 = SubSeq(s, k + 2, v)]
        ELSE LET e == RunNotIn(s, i, Whitespace)
             IN  [NoMatch EXCEPT !.end = e, !.g7 = SubSeq(s, i, e)]

\* finditer: the next match at or after pos (end = 0 when there is none).
\* No alternative matches at a whitespace character, the last one matches
\* at every other character.
NextMatch(s, pos) ==
    LET i == RunIn(s, pos, Whitespace) + 1
    IN  IF i > Len(s) THEN NoMatch ELSE argregex(s, i)

\* A bug: a key that is in the dict keeps its value.
SetDefault(d, key, value) ==
    [k \in DOMAIN d \cup {key} |-> IF k \in DOMAIN d THEN d[k] ELSE value]

\* kwargs[key] = value
SetItem(d, key, value) ==
    [k \in DOMAIN d \cup {key} |-> IF k = key THEN value ELSE d[k]]

EmptyDict == [k \in {} |-> None]

NoArgs == [raised |-> FALSE, exc |-> "None", pargs |-> <<>>, kwargs |-> EmptyDict]

\* The value parse_args stores for a match of the first two alternatives.
ArgValue(match) == Or(Or(match.g3, match.g4), match.g6)

\* The body of parse_args' loop for one match.
ParseArg(acc, match) ==
    IF Truthy(match.g2) \/ Truthy(match.g5)
    THEN LET key == Or(match.g1, match.g5)
             value == ArgValue(match)
             decoded == IF Truthy(match.g3) \/ Truthy(match.g4)
                        THEN decode(value)
                        ELSE Returned(value)
         IN  IF decoded.raised
             THEN [acc EXCEPT !.raised = TRUE, !.exc = decoded.exc]
             ELSE IF Truthy(key)
                  THEN [acc EXCEPT !.kwargs = SetItem(@, key, decoded.value)]
                  ELSE [acc EXCEPT !.pargs = Append(@, decoded.value)]
    ELSE [acc EXCEPT !.pargs = Append(@, match.g7)]

RECURSIVE ParseArgsFrom(_, _, _)
ParseArgsFrom(s, pos, acc) ==
    LET match == NextMatch(s, pos)
    IN  IF acc.raised \/ match.end = 0 THEN acc
        ELSE ParseArgsFrom(s, match.end + 1, ParseArg(acc, match))

\* Shortcode.parse_args(args): pargs and kwargs, or the exception of decode.
parse_args(args) == ParseArgsFrom(args, 1, NoArgs)

----------------------------------------------------------------------------
(* Parser.__init__: the compiled pattern ((?:esc)?start.*?end), and        *)
(* Parser.tokenize.                                                        *)

\* '.*?' then the end marker, from j: the index of the last character of the
\* shortest match, or 0 ('.' is no line break).
RECURSIVE EndFrom(_, _, _)
EndFrom(re, s, k) ==
    IF k > Len(s) THEN 0
    ELSE IF StartsAt(s, k, re.end) THEN k + Len(re.end) - 1
    ELSE IF s[k] = "\n" THEN 0
    ELSE EndFrom(re, s, k + 1)

\* regex.match(s, i - 1): the index of the last character of the match that
\* starts at i, or 0.  The optional escape is tried first.
regex_match(re, s, i) ==
    LET escaped == IF StartsAt(s, i, re.esc \o re.start)
                   THEN EndFrom(re, s, i + Len(re.esc) + Len(re.start))
                   ELSE 0
        plain == IF StartsAt(s, i, re.start)
                 THEN EndFrom(re, s, i + Len(re.start))
                 ELSE 0
    IN  IF escaped > 0 THEN escaped ELSE plain

\* regex.search(s, pos - 1): where the leftmost match starts, or 0.
RECURSIVE regex_search(_, _, _)
regex_search(re, s, pos) ==
    IF pos > Len(s) THEN 0
    ELSE IF regex_match(re, s, pos) > 0 THEN pos
    ELSE regex_search(re, s, pos + 1)

\* regex.split(s), the pattern being one capturing group: the text between
\* the matches and the matches, alternating, empty strings included.
RECURSIVE regex_split(_, _, _)
regex_split(re, s, pos) ==
    LET i == regex_search(re, s, pos)
        e == regex_match(re, s, i)
    IN  IF i = 0 THEN <<From(s, pos)>>
        ELSE <<SubSeq(s, pos, i - 1), SubSeq(s, i, e)>> \o regex_split(re, s, e + 1)

NotEmpty(token) == token # <<>>

\* Parser.tokenize(text)
tokenize(parser, txt) == SelectSeq(regex_split(parser.regex, txt, 1), NotEmpty)

\* The keyword parameters of Parser.__init__.
ParserParams == {"start", "end", "esc"}

\* The Parser object Parser(start, end, esc) builds.
Parser(start, end, esc) ==
    [start |-> start,
     esc_start |-> esc \o start,
     len_start |-> Len(start),
     len_end |-> Len(end),
     len_esc |-> Len(esc),
     regex |-> [esc |-> esc, start |-> start, end |-> end],
     tags |-> EmptyDict,
     ends |-> <<>>]

\* The defaults of Parser.__init__.
DefaultStart == <<"[", "%">>

DefaultEnd == <<"%", "]">>

DefaultEsc == <<"\\">>

\* No Parser object yet.
NoParser == Parser(<<>>, <<>>, <<>>)

----------------------------------------------------------------------------
(* The registries.                                                         *)

\* register(tag, end_tag)(function) and Parser.register(func, tag, end_tag),
\* on the pair of a tag table and an end-tag list.
register(reg, func, tag, end_tag) ==
    [tags |-> SetItem(reg.tags, tag, [func |-> func, endtag |-> end_tag]),
     ends |-> IF Truthy(end_tag) THEN Append(reg.ends, end_tag) ELSE reg.ends]

RECURSIVE RegisterAll(_, _)
RegisterAll(reg, rs) ==
    IF rs = <<>> THEN reg
    ELSE RegisterAll(register(reg, rs[1].func, rs[1].tag, rs[1].end_tag), Tail(rs))

\* x in list
InList(x, list) == \E k \in 1..Len(list) : list[k] = x

foo == <<"f", "o", "o">>

wrap == <<"w", "r", "a", "p">>

endwrap == <<"e", "n", "d">> \o wrap

localwrap == <<"l", "o", "c", "a", "l">> \o wrap

endlocalwrap == <<"e", "n", "d">> \o localwrap

divbyzero == <<"d", "i", "v", "b", "y", "z", "e", "r", "o">>

\* The handlers a program using the module registers as it is loaded.
GlobalRegistrations ==
    << [func |-> "foo_handler", tag |-> foo, end_tag |-> None],
       [func |-> "wrap_handler", tag |-> wrap, end_tag |-> endwrap],
       [func |-> "divbyzero_handler", tag |-> divbyzero, end_tag |-> None] >>

\* The handlers a program registers on its parser.
LocalRegistrations ==
    { [func |-> "wrap_handler", tag |-> localwrap, end_tag |-> endlocalwrap] }

\* A handler called as the module calls it, func(context, content, pargs,
\* kwargs): what it returns, or the exception it raises.
Call(func, ctx, content, pargs, kwargs) ==
    CASE func = "foo_handler" -> Returned(<<"b", "a", "r">>)
      [] func = "wrap_handler" ->
            IF pargs = <<>> THEN Raised("IndexError")
            ELSE Returned(<<"<">> \o Str(pargs[1]) \o <<">">> \o Str(content)
                          \o <<"<", "/">> \o Str(pargs[1]) \o <<">">>)
      [] func = "divbyzero_handler" -> Raised("ZeroDivisionError")

----------------------------------------------------------------------------
(* Exceptions and nodes.                                                   *)

\* No exception.  cause is __cause__ (the type it holds, or None); context
\* is the __context__ chain, the exception being handled when this one was
\* raised first.
NoError == [type |-> "None", msg |-> "", args |-> <<>>, cause |-> "None",
            context |-> <<>>]

\* raise type(msg % args), outside any except block.
Exception(type, msg, args) ==
    [NoError EXCEPT !.type = type, !.msg = msg, !.args = args]

\* A Node object; kind is its class.
Node ==
    [kind |-> "Node", text |-> <<>>, tag |-> <<>>, func |-> "None",
     pargs |-> <<>>, kwargs |-> EmptyDict, children |-> <<>>]

\* A bug: the text is kept without the whitespace around it.
TextStripped(txt) == [Node EXCEPT !.kind = "Text", !.text = Strip(txt)]

\* Text(text)
Text(txt) == [Node EXCEPT !.kind = "Text", !.text = txt]

\* Shortcode(tag, args, func) and ScopedShortcode(tag, args, func), the
\* argument string parsed already.
Shortcode(kind, tag, parsed, func) ==
    [Node EXCEPT !.kind = kind, !.tag = tag, !.func = func,
                 !.pargs = parsed.pargs, !.kwargs = parsed.kwargs]

----------------------------------------------------------------------------
(* Parser.parse_token and Parser.parse_shortcode, on the builder state     *)
(* b = [nodes, stack, expecting, error] of one parse call.                 *)

\* A bug: the new node becomes a child of the root.
AppendToRoot(b, node) ==
    LET id == Len(b.nodes) + 1
    IN  [b EXCEPT !.nodes = [Append(@, node) EXCEPT ![1].children = Append(@, id)]]

\* stack[-1].children.append(node), node a new object.
AppendNode(b, node) ==
    LET id == Len(b.nodes) + 1
    IN  [b EXCEPT !.nodes = [Append(@, node) EXCEPT
                                ![Last(b.stack)].children = Append(@, id)]]

Raise(b, exception) == [b EXCEPT !.error = exception]

\* content.split(None, 1)[0], content stripped and not empty.
TagOf(content) == SubSeq(content, 1, RunNotIn(content, 1, Whitespace))

\* A bug: any registered end-tag closes the innermost block.
ClosesAny(tag, expected) == TRUE

\* tag == expecting[-1]
Closes(tag, expected) == tag = Last(expected)

\* A bug: a name that is registered as a tag is not taken as an end-tag.
IsEndTagOnly(tag, tgs, nds) == InList(tag, nds) /\ tag \notin DOMAIN tgs

\* if tag in ends: it is asked first, before 'elif tag in tags'.
IsEndTag(tag, tgs, nds) == InList(tag, nds)

parse_shortcode(content, b, tgs, nds) ==
    LET tag == TagOf(content)
        args == From(content, Len(tag) + 1)
    IN  IF IsEndTag(tag, tgs, nds)
        THEN IF b.expecting = <<>>
             THEN Raise(b, Exception("NestingError", "not expecting [%s]", <<tag>>))
             ELSE IF Closes(tag, b.expecting)
                  THEN [b EXCEPT !.stack = Front(@), !.expecting = Front(@)]
                  ELSE Raise(b, Exception("NestingError",
                                          "expecting [%s], found [%s]",
                                          <<Last(b.expecting), tag>>))
        ELSE IF tag \in DOMAIN tgs
        THEN LET parsed == parse_args(args)
                 scoped == Truthy(tgs[tag].endtag)
                 kind == IF scoped THEN "ScopedShortcode" ELSE "Shortcode"
                 added == AppendNode(b, Shortcode(kind, tag, parsed, tgs[tag].func))
             IN  IF parsed.raised THEN Raise(b, Exception(parsed.exc, "", <<>>))
                 ELSE IF scoped
                      THEN [added EXCEPT
                                !.stack = Append(@, Len(added.nodes)),
                                !.expecting = Append(@, tgs[tag].endtag)]
                      ELSE added
        ELSE Raise(b, Exception("InvalidTagError",
                                "[%s] is not a recognised shortcode tag", <<tag>>))

\* token[len_start:-len_end]
Inner(parser, token) ==
    SubSeq(token, parser.len_start + 1, Len(token) - parser.len_end)

\* A bug: the escape marker is left on the token.
Escaped(parser, token) == token

\* token[self.len_esc:]
Unescaped(parser, token) == From(token, parser.len_esc + 1)

parse_token(parser, token, b, tgs, nds) ==
    IF StartsWith(token, parser.start)
    THEN LET content == Strip(Inner(parser, token))
         IN  IF content # <<>> THEN parse_shortcode(content, b, tgs, nds) ELSE b
    ELSE IF StartsWith(token, parser.esc_start)
         THEN AppendNode(b, Text(Unescaped(parser, token)))
    ELSE AppendNode(b, Text(token))

\* A bug: the global entry of a tag wins over the parser's.
MergedGlobalFirst(gtags, ptags) ==
    [t \in DOMAIN gtags \cup DOMAIN ptags |->
        IF t \in DOMAIN gtags THEN gtags[t] ELSE ptags[t]]

\* tags = globaltags.copy(); tags.update(self.tags)
Merged(gtags, ptags) ==
    [t \in DOMAIN gtags \cup DOMAIN ptags |->
        IF t \in DOMAIN ptags THEN ptags[t] ELSE gtags[t]]

----------------------------------------------------------------------------
(* The inputs.                                                             *)

\* How many pieces a text of shortcode tokens is made of, at most.
MaxTokens == 4

\* How many pieces a text of delimiter fragments is made of, at most.
MaxFrags == 4

Open == DefaultStart \o <<" ">>

Close == <<" ">> \o DefaultEnd

TokenPieces ==
    { Open \o foo \o Close,
      Open \o wrap \o <<" ", "p">> \o Close,
      Open \o endwrap \o Close,
      Open \o localwrap \o <<" ", "p">> \o Close,
      Open \o endlocalwrap \o Close,
      Open \o divbyzero \o Close,
      Open \o foo \o <<" ", "\"", "\\", "x", "\"">> \o Close,
      <<".", ".">> }

FragPieces ==
    { DefaultEsc, DefaultStart, DefaultEnd, <<"\n">>,
      Open \o foo \o Close,
      Open \o wrap \o <<" ", "p">> \o Close,
      Open \o endwrap \o Close }

\* Every concatenation of at most n pieces of P.
RECURSIVE Concats(_, _)
Concats(P, n) ==
    IF n = 0 THEN {<<>>}
    ELSE LET C == Concats(P, n - 1) IN C \cup {c \o p : c \in C, p \in P}

Texts == Concats(TokenPieces, MaxTokens) \cup Concats(FragPieces, MaxFrags)

\* The context objects: None (parse's default) and 101.
Contexts == {"None", "101"}

\* The keyword arguments a program constructs its parser with.
ParserKeywords == {{}, {"ignore_unknown"}}

----------------------------------------------------------------------------
(* The program: the module is loaded and the handlers are registered, a    *)
(* parser is constructed, handlers are registered on it, and parse runs.   *)

Loaded == RegisterAll([tags |-> EmptyDict, ends |-> <<>>], GlobalRegistrations)

InitParse ==
    /\ globaltags = Loaded.tags
    /\ globalends = Loaded.ends
    /\ keywords = {}
    /\ self = NoParser
    /\ registered = 0
    /\ results = <<>>
    /\ waiting = <<>>
    /\ pc = "new"
    /\ text = <<>>
    /\ context = "None"
    /\ tags = EmptyDict
    /\ ends = <<>>
    /\ tokens = <<>>
    /\ ti = 1
    /\ nodes = <<>>
    /\ stack = <<>>
    /\ expecting = <<>>
    /\ frames = <<>>
    /\ calls = <<>>
    /\ output = None
    /\ error = NoError

Init ==
    /\ InitParse
    /\ a_args = <<>>
    /\ a_src = <<>>
    /\ a_pos = 1
    /\ a_pargs = <<>>
    /\ a_kwargs = EmptyDict
    /\ a_pc = "idle"

\* Parser(**keywords): Python refuses a keyword __init__ does not name.
ParserInit ==
    /\ pc = "new"
    /\ \E kw \in ParserKeywords :
          /\ keywords' = kw
          /\ IF kw \subseteq ParserParams
             THEN /\ self' = Parser(DefaultStart, DefaultEnd, DefaultEsc)
                  /\ pc' = "ready"
                  /\ error' = error
             ELSE /\ error' = Exception("TypeError",
                                        "unexpected keyword argument", <<>>)
                  /\ pc' = "raised"
                  /\ self' = self
    /\ UNCHANGED <<globaltags, globalends, registered, text, context, tags, ends,
                   tokens, ti, nodes, stack, expecting, frames, calls, output>>
    /\ UNCHANGED results
    /\ UNCHANGED waiting
    /\ UNCHANGED args_vars

\* parser.register(func, tag, end_tag) for a registration of menu.
ParserRegisterOn(menu) ==
    /\ registered' = registered + 1
    /\ \E r \in menu :
          LET reg == register([tags |-> self.tags, ends |-> self.ends],
                              r.func, r.tag, r.end_tag)
          IN  self' = [self EXCEPT !.tags = reg.tags, !.ends = reg.ends]
    /\ UNCHANGED <<globaltags, globalends, keywords, pc, text, context, tags,
                   ends, tokens, ti, nodes, stack, expecting, frames, calls,
                   output, error>>
    /\ UNCHANGED results
    /\ UNCHANGED waiting
    /\ UNCHANGED args_vars

\* The program registers its handlers on the parser before it parses.
ParserRegister ==
    /\ pc = "ready"
    /\ registered < Cardinality(LocalRegistrations)
    /\ ParserRegisterOn(LocalRegistrations)

\* A bug: the root of the call before, with its children, is the root of
\* this one.
KeptTree(previous) ==
    [nodes |-> IF previous.nodes = <<>> THEN <<Node>> ELSE previous.nodes,
     stack |-> <<1>>,
     expecting |-> <<>>]

\* stack, expecting = [Node()], []: new objects, whatever the nodes and the
\* stacks of the previous call are.
NewTree(previous) == [nodes |-> <<Node>>, stack |-> <<1>>, expecting |-> <<>>]

\* parser.parse(text, context) for a text of texts, up to its loop over the
\* tokens.  Nothing of an earlier call is an input of this one but the
\* registries.
ParseCall(texts) ==
    /\ \E t \in texts, c \in Contexts :
          /\ text' = t
          /\ context' = c
          /\ tokens' = tokenize(self, t)
    /\ tags' = Merged(globaltags, self.tags)
    /\ ends' = globalends \o self.ends
    /\ LET b == NewTree([nodes |-> nodes, stack |-> stack,
                         expecting |-> expecting])
       IN  /\ nodes' = b.nodes
           /\ stack' = b.stack
           /\ expecting' = b.expecting
    /\ ti' = 1
    /\ pc' = "tokens"
    /\ frames' = <<>>
    /\ calls' = <<>>
    /\ output' = None
    /\ error' = NoError
    /\ UNCHANGED <<globaltags, globalends, keywords, self, registered>>
    /\ UNCHANGED waiting
    /\ UNCHANGED args_vars

\* The first parse call of the program.
Parse ==
    /\ pc = "ready"
    /\ ParseCall(Texts)
    /\ UNCHANGED results

\* One turn of parse's loop: parse_token on the next token.
ParseToken ==
    /\ pc = "tokens"
    /\ ti <= Len(tokens)
    /\ LET b == parse_token(self, tokens[ti],
                            [nodes |-> nodes, stack |-> stack,
                             expecting |-> expecting, error |-> error],
                            tags, ends)
       IN  /\ nodes' = b.nodes
           /\ stack' = b.stack
           /\ expecting' = b.expecting
           /\ error' = b.error
           /\ pc' = IF b.error = NoError THEN "tokens" ELSE "raised"
           /\ ti' = IF b.error = NoError THEN ti + 1 ELSE ti
    /\ UNCHANGED <<globaltags, globalends, keywords, self, registered, text, context, tags,
                   ends, tokens, frames, calls, output>>
    /\ UNCHANGED results
    /\ UNCHANGED waiting
    /\ UNCHANGED args_vars

\* A bug: the error names the outermost open block's end-tag.
ExpectingFirst(expected) ==
    Exception("NestingError", "expecting [%s]", <<Head(expected)>>)

\* NestingError('expecting [%s]' % expecting[-1])
ExpectingLast(expected) ==
    Exception("NestingError", "expecting [%s]", <<Last(expected)>>)

\* A bug: the end-tags still expected are not looked at.
UnbalancedNever(expected) == FALSE

\* if expecting:
Unbalanced(expected) == expected # <<>>

\* After the loop: the check of the expected end-tags, then stack.pop() and
\* the call of the root's render.
ParseEnd ==
    /\ pc = "tokens"
    /\ ti > Len(tokens)
    /\ IF Unbalanced(expecting)
       THEN /\ error' = ExpectingLast(expecting)
            /\ pc' = "raised"
            /\ UNCHANGED <<stack, frames>>
       ELSE /\ frames' = <<[node |-> Last(stack), i |-> 1, acc |-> <<>>]>>
            /\ stack' = Front(stack)
            /\ pc' = "render"
            /\ error' = error
    /\ UNCHANGED <<globaltags, globalends, keywords, self, registered, text, context, tags,
                   ends, tokens, ti, nodes, expecting, calls, output>>
    /\ UNCHANGED results
    /\ UNCHANGED waiting
    /\ UNCHANGED args_vars

\* raise RenderingError(...) in the except block that handles `during`.
RenderingError(tag, during) ==
    [type |-> "RenderingError",
     msg |-> "error rendering [%s] shortcode",
     args |-> <<tag>>,
     cause |-> "None",
     context |-> <<during.type>> \o during.context]

\* An exception leaving the render calls fs (outermost first): every
\* ScopedShortcode.render among them renders its children inside its try.
RECURSIVE Unwind(_, _, _)
Unwind(ns, fs, exception) ==
    IF fs = <<>> THEN exception
    ELSE IF ns[Last(fs).node].kind = "ScopedShortcode"
         THEN Unwind(ns, Front(fs), RenderingError(ns[Last(fs).node].tag, exception))
         ELSE Unwind(ns, Front(fs), exception)

\* A bug: every handler gets the joined string, an atomic one the empty one.
ContentJoined(node, acc) == acc

\* The content a render call passes to its handler.
ContentOf(node, acc) == IF node.kind = "ScopedShortcode" THEN acc ELSE None

\* self.func(context, content, self.pargs, self.kwargs) in the render of
\* node id, and the record of that call.
Invoke(ns, id, ctx, acc) ==
    LET node == ns[id]
        content == ContentOf(node, acc)
        r == Call(node.func, ctx, content, node.pargs, node.kwargs)
    IN  [node |-> id, tag |-> node.tag, func |-> node.func, context |-> ctx,
         content |-> content, pargs |-> node.pargs, kwargs |-> node.kwargs,
         raised |-> r.raised, exc |-> r.exc, value |-> Str(r.value)]

\* A bug: the string a child rendered to is put before the others.
JoinedBefore(fs, s) ==
    [fs EXCEPT ![Len(fs)] = [@ EXCEPT !.acc = s \o @, !.i = @ + 1]]

\* The frame on top gets the string a child rendered to.
Joined(fs, s) ==
    [fs EXCEPT ![Len(fs)] = [@ EXCEPT !.acc = @ \o s, !.i = @ + 1]]

\* One step of the render calls: the next child of the node on top is
\* rendered (a Text), called (a Shortcode) or entered (a ScopedShortcode);
\* a ScopedShortcode whose children are rendered calls its handler, and the
\* root returns the joined string.
Render ==
    /\ pc = "render"
    /\ LET f == Last(frames)
           node == nodes[f.node]
           child == nodes[node.children[f.i]]
           id == IF f.i <= Len(node.children) THEN node.children[f.i] ELSE f.node
           under == IF f.i <= Len(node.children) THEN frames ELSE Front(frames)
           call == Invoke(nodes, id, context, f.acc)
           failed == /\ calls' = Append(calls, call)
                     /\ error' = Unwind(nodes, under,
                                        RenderingError(call.tag,
                                                       Exception(call.exc, "", <<>>)))
                     /\ pc' = "raised"
                     /\ frames' = <<>>
                     /\ output' = output
           returned == /\ calls' = Append(calls, call)
                       /\ frames' = Joined(under, call.value)
                       /\ UNCHANGED <<pc, error, output>>
       IN  IF f.i <= Len(node.children)
           THEN CASE child.kind = "Text" ->
                        /\ frames' = Joined(frames, child.text)
                        /\ UNCHANGED <<pc, error, output, calls>>
                  [] child.kind = "Shortcode" ->
                        IF call.raised THEN failed ELSE returned
                  [] child.kind = "ScopedShortcode" ->
                        /\ frames' = Append(frames, [node |-> id, i |-> 1,
                                                     acc |-> <<>>])
                        /\ UNCHANGED <<pc, error, output, calls>>
           ELSE IF node.kind = "Node"
                THEN /\ output' = f.acc
                     /\ pc' = "done"
                     /\ frames' = <<>>
                     /\ UNCHANGED <<error, calls>>
                ELSE IF call.raised THEN failed ELSE returned
    /\ UNCHANGED <<globaltags, globalends, keywords, self, registered, text, context,
                   tags, ends, tokens, ti, nodes, stack, expecting>>
    /\ UNCHANGED results
    /\ UNCHANGED waiting
    /\ UNCHANGED args_vars

Next == ParserInit \/ ParserRegister \/ Parse \/ ParseToken \/ ParseEnd \/ Render

Spec == Init /\ [][Next]_vars

----------------------------------------------------------------------------
(* Shortcode.parse_args on its own: an argument string is written from a   *)
(* list of arguments, and the loop over finditer's matches runs on it.     *)

\* How many arguments an argument string is written from, at most.
MaxArgs == 3

key1 == <<"k", "e", "y", "1">>

key2 == <<"k", "e", "y", "2">>

\* The key of an argument: None for an argument without one.
ArgKeys == {None, key1, key2}

\* How the value of an argument is written: the quote around it (none for
\* an unquoted value), the characters as written, the string they stand for,
\* and whether they hold an escape Python refuses to decode.
ArgForms ==
    { [quote |-> <<>>, raw |-> <<"a", "1">>, value |-> <<"a", "1">>,
       fails |-> FALSE],
      [quote |-> <<"\"">>, raw |-> <<"a", " ", "2">>, value |-> <<"a", " ", "2">>,
       fails |-> FALSE],
      [quote |-> <<"'">>, raw |-> <<"b", "=", "c", "=", " ", "d", " ">>,
       value |-> <<"b", "=", "c", "=", " ", "d", " ">>, fails |-> FALSE],
      [quote |-> <<"\"">>, raw |-> <<>>, value |-> <<>>, fails |-> FALSE],
      [quote |-> <<"\"">>, raw |-> <<"\\", "\"">>, value |-> <<"\"">>,
       fails |-> FALSE],
      [quote |-> <<"\"">>, raw |-> <<"\\", "x">>, value |-> <<>>,
       fails |-> TRUE] }

Arguments == [key : ArgKeys, form : ArgForms]

\* An argument as it is written in a shortcode, after a space.
Written(arg) ==
    <<" ">> \o (IF arg.key = None THEN <<>> ELSE arg.key \o <<"=">>)
            \o arg.form.quote \o arg.form.raw \o arg.form.quote

RECURSIVE WrittenAll(_)
WrittenAll(arglist) ==
    IF arglist = <<>> THEN <<>>
    ELSE Written(Head(arglist)) \o WrittenAll(Tail(arglist))

ArgLists == UNION {[1..n -> Arguments] : n \in 0..MaxArgs}

InitArgs ==
    /\ InitParse
    /\ a_src \in ArgLists
    /\ a_args = WrittenAll(a_src)
    /\ a_pos = 1
    /\ a_pargs = <<>>
    /\ a_kwargs = EmptyDict
    /\ a_pc = "scan"

\* One turn of parse_args' loop: the next match of finditer is stored, or
\* decode raises.
ArgMatch ==
    /\ a_pc = "scan"
    /\ LET match == NextMatch(a_args, a_pos)
           acc == ParseArg([NoArgs EXCEPT !.pargs = a_pargs, !.kwargs = a_kwargs],
                           match)
       IN  /\ match.end > 0
           /\ a_pargs' = acc.pargs
           /\ a_kwargs' = acc.kwargs
           /\ a_pos' = match.end + 1
           /\ a_pc' = IF acc.raised THEN "raised" ELSE "scan"
    /\ UNCHANGED <<a_args, a_src>>
    /\ UNCHANGED parse_vars

\* finditer has no further match: parse_args returns pargs and kwargs.
ArgsReturn ==
    /\ a_pc = "scan"
    /\ NextMatch(a_args, a_pos).end = 0
    /\ a_pc' = "done"
    /\ UNCHANGED <<a_args, a_src, a_pos, a_pargs, a_kwargs>>
    /\ UNCHANGED parse_vars

NextArgs == ArgMatch \/ ArgsReturn

SpecArgs == InitArgs /\ [][NextArgs]_vars

----------------------------------------------------------------------------
(* Properties of Parser.parse (specification Spec).                        *)

Root == 1

IsShortcode(id) == nodes[id].kind \in {"Shortcode", "ScopedShortcode"}

IsScoped(id) == nodes[id].kind = "ScopedShortcode"

\* The set of the elements of a list.
Elements(list) == {list[k] : k \in 1..Len(list)}

\* The nodes below a node.
RECURSIVE Below(_)
Below(id) ==
    Elements(nodes[id].children)
        \cup UNION {Below(c) : c \in Elements(nodes[id].children)}

\* The calls of the handler of a node, as indices of the call log.
CallsOf(id) == {k \in 1..Len(calls) : calls[k].node = id}

\* What a node rendered to: its text, or what the call of its handler
\* returned.
RenderedTo(id) ==
    IF nodes[id].kind = "Text" THEN nodes[id].text
    ELSE calls[CHOOSE k \in CallsOf(id) : TRUE].value

\* The strings the children of a node rendered to, joined in document order.
ChildrenJoined(id) ==
    Join([k \in 1..Len(nodes[id].children) |-> RenderedTo(nodes[id].children[k])])

\* C1: when parse returns (the block tags of the text are well nested), the
\* handler of every shortcode node was called exactly once, every handler of
\* a node inside a block was called and returned before the block's, a
\* block's handler got as content the strings its children rendered to,
\* joined in document order, and the output is the same join for the root.
\* The order and the content hold of every call made, also when a later
\* handler fails.
C1_BottomUp ==
    /\ \A k \in 1..Len(calls) :
          /\ CallsOf(calls[k].node) = {k}
          /\ IsShortcode(calls[k].node)
          /\ IsScoped(calls[k].node) =>
                /\ \A d \in Below(calls[k].node) :
                      IsShortcode(d) =>
                          \E j \in 1..(k - 1) :
                              calls[j].node = d /\ ~calls[j].raised
                /\ calls[k].content = ChildrenJoined(calls[k].node)
    /\ pc = "done" =>
          /\ \A id \in 1..Len(nodes) :
                IsShortcode(id) => Cardinality(CallsOf(id)) = 1
          /\ \A k \in 1..Len(calls) : ~calls[k].raised
          /\ output = ChildrenJoined(Root)

\* parse returned the output of a block that holds a text and a shortcode.
C1_Witness ==
    /\ pc = "done"
    /\ \E k \in 1..Len(calls) :
          /\ IsScoped(calls[k].node)
          /\ \E c, d \in Elements(nodes[calls[k].node].children) :
                nodes[c].kind = "Shortcode" /\ nodes[d].kind = "Text"

\* Every token of the text was consumed and a block is still open.
OpenAtEnd ==
    /\ pc \notin {"new", "ready"}
    /\ ti > Len(tokens)
    /\ expecting # <<>>

\* C2: when a block is still open after the last token, parse raises a
\* NestingError that names the end-tag of the innermost open block (the top
\* of expecting, the end-tag registered for the node on top of the stack),
\* calls no handler and returns nothing.
C2_UnclosedBlock ==
    OpenAtEnd =>
        /\ pc \in {"tokens", "raised"}
        /\ output = None
        /\ calls = <<>>
        /\ pc = "raised" =>
              /\ error.type = "NestingError"
              /\ error.msg = "expecting [%s]"
              /\ error.args = <<Last(expecting)>>
              /\ error.args = <<tags[nodes[Last(stack)].tag].endtag>>

\* parse raised for a text that leaves two blocks with different end-tags
\* open.
C2_Witness ==
    /\ OpenAtEnd
    /\ pc = "raised"
    /\ Len(expecting) = 2
    /\ expecting[1] # expecting[2]

\* The next token is handled as a shortcode and its content is not empty.
AtShortcode ==
    /\ pc = "tokens"
    /\ ti <= Len(tokens)
    /\ StartsWith(tokens[ti], self.start)
    /\ Strip(Inner(self, tokens[ti])) # <<>>

\* The tag of that token.
NextTag == TagOf(Strip(Inner(self, tokens[ti])))

\* C3: a shortcode token whose tag is a registered end-tag raises a
\* NestingError when no block is open or when the tag is not the top of
\* expecting, and leaves the tree and both stacks as they are; otherwise it
\* pops the stack and expecting once each and changes nothing else.
C3_EndTag ==
    [][ (AtShortcode /\ InList(NextTag, ends)) =>
            IF expecting = <<>> \/ NextTag # Last(expecting)
            THEN /\ pc' = "raised"
                 /\ error'.type = "NestingError"
                 /\ UNCHANGED <<nodes, stack, expecting, calls, output>>
            ELSE /\ pc' = "tokens"
                 /\ stack' = Front(stack)
                 /\ expecting' = Front(expecting)
                 /\ ti' = ti + 1
                 /\ UNCHANGED <<nodes, error, calls, output>> ]_vars

\* An end-tag met an open block of another tag, after a block was closed.
C3_Witness ==
    /\ pc = "raised"
    /\ error.msg = "expecting [%s], found [%s]"
    /\ \E id \in 1..Len(nodes) : IsScoped(id) /\ id \notin Elements(stack)

\* A token is handled as a shortcode, has content, and its tag is in
\* neither merged table.
UnknownAt(k) ==
    /\ StartsWith(tokens[k], self.start)
    /\ Strip(Inner(self, tokens[k])) # <<>>
    /\ ~InList(TagOf(Strip(Inner(self, tokens[k]))), ends)
    /\ TagOf(Strip(Inner(self, tokens[k]))) \notin DOMAIN tags

\* C4: a parse of a text with a shortcode token of an unknown tag raises an
\* InvalidTagError, unless an earlier token raised a NestingError, and
\* returns nothing.
C4_UnknownTag ==
    \A k \in 1..Len(tokens) :
        (UnknownAt(k) /\ pc \notin {"new", "ready", "tokens"}) =>
            /\ pc = "raised"
            /\ output = None
            /\ \/ error.type = "InvalidTagError"
               \/ error.type = "NestingError" /\ ti < k

\* C5: a parser constructed with ignore_unknown=True fails neither at its
\* construction nor on a tag that is registered nowhere.
C5_IgnoreUnknown ==
    "ignore_unknown" \in keywords =>
        error.type \notin {"TypeError", "InvalidTagError"}

\* C6: a RenderingError names the tag of the shortcode whose handler
\* failed, which is the last call made.
C6_FailedTag ==
    error.type = "RenderingError" =>
        /\ calls # <<>>
        /\ Last(calls).raised
        /\ error.args = <<Last(calls).tag>>

\* C7: the cause of a RenderingError is the exception the handler raised.
C7_Cause ==
    error.type = "RenderingError" =>
        /\ calls # <<>>
        /\ error.cause = Last(calls).exc

\* s[-len(p):] == p
EndsWith(s, p) == Len(s) >= Len(p) /\ From(s, Len(s) - Len(p) + 1) = p

\* A shortcode span: the start marker, characters that hold neither the end
\* marker nor a line break, the end marker.
IsSpan(s) ==
    /\ StartsWith(s, DefaultStart)
    /\ EndsWith(s, DefaultEnd)
    /\ Len(s) >= Len(DefaultStart) + Len(DefaultEnd)
    /\ \A k \in (Len(DefaultStart) + 1)..Len(s) :
          /\ s[k] # "\n"
          /\ StartsAt(s, k, DefaultEnd) => k = Len(s) - Len(DefaultEnd) + 1

\* The text less its first n characters.
TextFrom(n) == From(text, n + 1)

\* The text is a span after one escape marker, or after two.
EscapedText ==
    /\ pc \notin {"new", "ready"}
    /\ StartsWith(text, DefaultEsc)
    /\ \/ IsSpan(TextFrom(Len(DefaultEsc)))
       \/ /\ StartsWith(TextFrom(Len(DefaultEsc)), DefaultEsc)
          /\ IsSpan(TextFrom(2 * Len(DefaultEsc)))

\* C8: a span after one escape marker renders as the span, and a span after
\* two escape markers as one escape marker and the span: parse removes the
\* first escape marker only, raises nothing and calls no handler.
C8_Escape ==
    EscapedText =>
        /\ pc # "raised"
        /\ calls = <<>>
        /\ expecting = <<>>
        /\ pc = "done" => output = TextFrom(Len(DefaultEsc))

\* parse returned for an end-tag's span after two escape markers.
C8_Witness ==
    /\ EscapedText
    /\ pc = "done"
    /\ text = DefaultEsc \o DefaultEsc \o Open \o endwrap \o Close

\* C9: every handler is called with the context parse was called with; the
\* handler of a Shortcode gets None as content, the handler of a
\* ScopedShortcode a string, the empty one when the block has no children.
C9_Context ==
    \A k \in 1..Len(calls) :
        /\ calls[k].context = context
        /\ nodes[calls[k].node].kind = "Shortcode" => calls[k].content = None
        /\ IsScoped(calls[k].node) =>
              /\ calls[k].content # None
              /\ nodes[calls[k].node].children = <<>> => calls[k].content = <<>>

\* With the context 101, a block without children inside another block had
\* its handler called, and then the block around it.
C9_Witness ==
    /\ context = "101"
    /\ Len(calls) >= 2
    /\ \E k \in 1..Len(calls) :
          /\ IsScoped(calls[k].node)
          /\ nodes[calls[k].node].children = <<>>
          /\ calls[k].node \notin Elements(nodes[Root].children)

----------------------------------------------------------------------------
(* Properties of Shortcode.parse_args (specification SpecArgs).            *)

\* The values of the arguments without a key, in the order written.
RECURSIVE Positional(_)
Positional(arglist) ==
    IF arglist = <<>> THEN <<>>
    ELSE (IF Head(arglist).key = None THEN <<Head(arglist).form.value>> ELSE <<>>)
         \o Positional(Tail(arglist))

\* The keys written.
KeysOf(arglist) == {arglist[k].key : k \in 1..Len(arglist)} \ {None}

\* The value of the last argument written with a key.
LastValue(arglist, key) ==
    LET k == CHOOSE i \in 1..Len(arglist) :
                 /\ arglist[i].key = key
                 /\ \A j \in (i + 1)..Len(arglist) : arglist[j].key # key
    IN  arglist[k].form.value

\* C10: parse_args puts every argument written with a key into kwargs under
\* that key, and every other argument into pargs in the order written; the
\* value of a quoted argument is the string between its quotes, '=' and
\* spaces included.
C10_Classified ==
    a_pc = "done" =>
        /\ a_pargs = Positional(a_src)
        /\ DOMAIN a_kwargs = KeysOf(a_src)
        /\ \A key \in KeysOf(a_src) : a_kwargs[key] = LastValue(a_src, key)

\* C11: every positional argument and every keyword value parse_args
\* returns is a string, never None, an empty quoted argument included.
C11_Strings ==
    a_pc = "done" =>
        /\ \A k \in 1..Len(a_pargs) : a_pargs[k] # None
        /\ \A key \in DOMAIN a_kwargs : a_kwargs[key] # None

----------------------------------------------------------------------------
(* Further properties of Parser.parse (specification Spec).                *)

\* s holds p somewhere.
Holds(s, p) == \E k \in 1..Len(s) : StartsAt(s, k, p)

\* parse was called.
Called == self # NoParser /\ pc \notin {"new", "ready"}

\* The text parse was called with holds neither marker.
NoMarkers ==
    /\ Called
    /\ ~Holds(text, DefaultStart)
    /\ ~Holds(text, DefaultEnd)

\* C14: for a text that holds neither the start marker nor the end marker,
\* the empty text included, parse raises nothing, calls no handler and
\* returns the text as it is.
C14_Identity ==
    NoMarkers =>
        /\ pc # "raised"
        /\ calls = <<>>
        /\ Len(tokens) <= 1
        /\ pc = "done" => output = text

\* parse returned for a text of an escape marker, a line break and other
\* characters, on a parser with a handler of its own.
C14_Witness ==
    /\ NoMarkers
    /\ pc = "done"
    /\ Holds(text, DefaultEsc)
    /\ Holds(text, <<"\n">>)
    /\ Len(text) >= 3
    /\ self.tags # EmptyDict

\* A shortcode span after one escape marker.
IsEscapedSpan(s) ==
    StartsWith(s, DefaultEsc) /\ IsSpan(From(s, Len(DefaultEsc) + 1))

\* C15: a token that is neither a span (start marker ... end marker) nor an
\* escape marker and a span is plain text: parse_token appends a Text node
\* that holds the whole token to the innermost open node and raises
\* nothing, also when the token begins with the start marker or with an
\* escape marker and the start marker.
C15_PlainText ==
    [][ ( /\ pc = "tokens"
          /\ ti <= Len(tokens)
          /\ ~IsSpan(tokens[ti])
          /\ ~IsEscapedSpan(tokens[ti]) ) =>
            /\ pc' = "tokens"
            /\ nodes' = AppendNode([nodes |-> nodes, stack |-> stack],
                                   Text(tokens[ti])).nodes
            /\ UNCHANGED <<stack, expecting, error>> ]_vars

\* parse is in its loop over the tokens, or an exception left that loop:
\* stack and expecting are as the last processed token left them.
Building ==
    /\ Called
    /\ \/ pc = "tokens"
       \/ pc = "raised" /\ error.type # "RenderingError"

\* stack is one longer than expecting, the root is its bottom, and every
\* other node on it is a ScopedShortcode, a child of the node below it,
\* whose registered end-tag is at the same place of expecting.
StackShape ==
    /\ Len(stack) = Len(expecting) + 1
    /\ stack[1] = Root
    /\ \A k \in 1..Len(expecting) :
          /\ IsScoped(stack[k + 1])
          /\ tags[nodes[stack[k + 1]].tag].endtag = expecting[k]
          /\ stack[k + 1] \in Elements(nodes[stack[k]].children)

\* C16 as the specification states it: the shape holds after every token,
\* and when parse succeeds expecting is empty and the stack holds exactly
\* the root.
C16_RootAtEnd ==
    /\ Building => StackShape
    /\ (Called /\ pc \in {"render", "done"}) =>
          expecting = <<>> /\ stack = <<Root>>

\* C16, amended: the shape holds after every processed token; when the last
\* token is consumed with expecting empty the stack holds exactly the root,
\* and parse pops it to render it, so the stack is empty while the tree is
\* rendered and when parse returns.
C16_StackInvariant ==
    /\ Building => StackShape
    /\ (Building /\ pc = "tokens" /\ ti > Len(tokens) /\ expecting = <<>>) =>
          stack = <<Root>>
    /\ (Called /\ ~Building) => expecting = <<>> /\ stack = <<>>

\* parse returned for a text with a block inside a block.
C16_Witness ==
    /\ pc = "done"
    /\ stack = <<>>
    /\ \E id \in 1..Len(nodes) :
          /\ IsScoped(id)
          /\ \E c \in Elements(nodes[id].children) : IsScoped(c)

\* The tag of the next token is registered without an end-tag and is no
\* end-tag: parse_shortcode builds a Shortcode for it.
AtAtomic ==
    /\ AtShortcode
    /\ ~InList(NextTag, ends)
    /\ NextTag \in DOMAIN tags
    /\ ~Truthy(tags[NextTag].endtag)

\* The next token is handled as text: it starts with no start marker.
AtText == pc = "tokens" /\ ti <= Len(tokens) /\ ~StartsWith(tokens[ti], self.start)

\* The next token is handled as a shortcode and has no content.
AtEmpty ==
    /\ pc = "tokens"
    /\ ti <= Len(tokens)
    /\ StartsWith(tokens[ti], self.start)
    /\ Strip(Inner(self, tokens[ti])) = <<>>

\* This step adds one node, as the last child of the innermost open node,
\* and changes no other node.
OneNodeAppended ==
    /\ Len(nodes') = Len(nodes) + 1
    /\ \A id \in 1..Len(nodes) :
          nodes'[id] = IF id = Last(stack)
                       THEN [nodes[id] EXCEPT !.children = Append(@, Len(nodes'))]
                       ELSE nodes[id]

\* C17: a text token, an escaped token and an atomic shortcode token leave
\* stack and expecting as they are and append exactly one node, to the
\* innermost open node; a shortcode token without content changes nothing
\* and raises nothing.
C17_Frame ==
    [][ /\ (AtText \/ AtAtomic) =>
              /\ OneNodeAppended
              /\ pc' = "tokens"
              /\ UNCHANGED <<stack, expecting, error, calls, output>>
        /\ AtEmpty =>
              /\ pc' = "tokens"
              /\ UNCHANGED <<nodes, stack, expecting, error, calls, output>> ]_vars

\* C18: a handler is called only after every token was consumed and the
\* check of expecting passed, so a parse that raised a NestingError or an
\* InvalidTagError called no handler; a handler that raised is the last one
\* called, and parse then raises and returns nothing.
C18_AbortOrder ==
    /\ calls # <<>> =>
          /\ Called
          /\ ti > Len(tokens)
          /\ expecting = <<>>
          /\ pc \in {"render", "done", "raised"}
          /\ pc = "raised" => error.type = "RenderingError"
    /\ error.type \in {"NestingError", "InvalidTagError"} =>
          calls = <<>> /\ output = None
    /\ \A k \in 1..Len(calls) :
          calls[k].raised =>
              /\ k = Len(calls)
              /\ pc = "raised"
              /\ frames = <<>>
              /\ output = None

\* A handler raised after another one returned, and the handler of a
\* shortcode after it was never called.
C18_Witness ==
    /\ pc = "raised"
    /\ Len(calls) >= 2
    /\ Last(calls).raised
    /\ \E id \in 1..Len(nodes) :
          IsShortcode(id) /\ id > Last(calls).node /\ CallsOf(id) = {}

----------------------------------------------------------------------------
(* Further properties of Shortcode.parse_args (specification SpecArgs).    *)

HasKey(arg) == arg.key # None

HasNoKey(arg) == arg.key = None

\* A key is written more than once.
DuplicateKey(arglist) ==
    \E i, j \in 1..Len(arglist) :
        i < j /\ HasKey(arglist[i]) /\ arglist[i].key = arglist[j].key

\* The last argument written with the key.
LastWith(arglist, key) ==
    arglist[CHOOSE i \in 1..Len(arglist) :
                /\ arglist[i].key = key
                /\ \A j \in (i + 1)..Len(arglist) : arglist[j].key # key]

----------------------------------------------------------------------------
(* A program that goes on after its first parse call: it registers further *)
(* handlers, globally and on its parser, between parse calls on short      *)
(* texts, and keeps what the calls returned or raised.                     *)

\* How many parse calls the program makes, at most.
MaxCalls == 2

\* How many handlers the program registers after the module is loaded, at
\* most.
MaxRegistrations == 2

\* Global registrations made later: the end-tag of wrap as a tag of its
\* own, and a tag that the parser may have a handler of its own for.
LaterGlobal ==
    { [func |-> "foo_handler", tag |-> endwrap, end_tag |-> None],
      [func |-> "divbyzero_handler", tag |-> localwrap, end_tag |-> None] }

\* Registrations on the parser: LocalRegistrations, and a handler for a tag
\* that is registered globally, as a block.
LaterLocal ==
    LocalRegistrations
        \cup { [func |-> "foo_handler", tag |-> wrap, end_tag |-> None] }

ShortTexts ==
    { Open \o wrap \o <<" ", "p">> \o Close,
      Open \o wrap \o <<" ", "p">> \o Close \o Open \o endwrap \o Close,
      Open \o endwrap \o Close,
      Open \o localwrap \o <<" ", "p">> \o Close,
      Open \o localwrap \o <<" ", "p">> \o Close \o Open \o endlocalwrap \o Close }

\* There is a parser and no parse call is running.
Idle == self # NoParser /\ pc \in {"ready", "done", "raised"}

\* register(tag, end_tag)(function), at any time outside a parse call.
GlobalRegister ==
    /\ pc = "new" \/ Idle
    /\ registered < MaxRegistrations
    /\ registered' = registered + 1
    /\ \E r \in LaterGlobal :
          LET reg == register([tags |-> globaltags, ends |-> globalends],
                              r.func, r.tag, r.end_tag)
          IN  /\ globaltags' = reg.tags
              /\ globalends' = reg.ends
    /\ UNCHANGED <<keywords, self, pc, text, context, tags, ends, tokens, ti,
                   nodes, stack, expecting, frames, calls, output, error>>
    /\ UNCHANGED results
    /\ UNCHANGED waiting
    /\ UNCHANGED args_vars

\* parser.register(func, tag, end_tag), at any time outside a parse call.
ParserRegisterLater ==
    /\ Idle
    /\ registered < MaxRegistrations
    /\ ParserRegisterOn(LaterLocal)

\* What the last parse call was given, the copies of the registries it made
\* as it began, and what it returned or raised.
Outcome ==
    [text |-> text, context |-> context, tags |-> tags, ends |-> ends,
     output |-> output, error |-> error]

\* The next parse call of the program; it keeps the outcome of the call
\* before.
ParseNext ==
    /\ Idle
    /\ IF pc = "ready"
       THEN UNCHANGED results
       ELSE /\ Len(results) + 1 < MaxCalls
            /\ results' = Append(results, Outcome)
    /\ ParseCall(ShortTexts)

NextCalls ==
    \/ ParserInit
    \/ GlobalRegister
    \/ ParserRegisterLater
    \/ ParseNext
    \/ ParseToken
    \/ ParseEnd
    \/ Render

SpecCalls == Init /\ [][NextCalls]_vars

----------------------------------------------------------------------------
(* Properties of a program that registers and parses more than once        *)
(* (specification SpecCalls).                                              *)

\* A parse call is running: no registration was made since it began.
Running == pc \in {"tokens", "render"}

\* The tag has an entry in either registry.
Registered(tag) == tag \in DOMAIN self.tags \cup DOMAIN globaltags

\* The entry a parse resolves a tag to: the parser's when it has one, the
\* global one otherwise.
Winner(tag) ==
    IF tag \in DOMAIN self.tags THEN self.tags[tag] ELSE globaltags[tag]

\* C12: whatever registrations were made, during a parse call the merged
\* table holds for every tag of either registry the parser's entry when
\* there is one and the global entry otherwise, every Shortcode node has
\* the handler and the class (block or atomic) of that entry, and the
\* end-tags of the call are those of the two lists together.
C12_Precedence ==
    Running =>
        /\ DOMAIN tags = DOMAIN self.tags \cup DOMAIN globaltags
        /\ \A tag \in DOMAIN tags : tags[tag] = Winner(tag)
        /\ Elements(ends) = Elements(globalends) \cup Elements(self.ends)
        /\ \A id \in 1..Len(nodes) :
              IsShortcode(id) =>
                  /\ Registered(nodes[id].tag)
                  /\ nodes[id].func = Winner(nodes[id].tag).func
                  /\ IsScoped(id) <=> Truthy(Winner(nodes[id].tag).endtag)
        /\ \A k \in 1..Len(calls) : calls[k].func = Winner(calls[k].tag).func

\* A call runs the handler of the parser, a block's, for a tag whose global
\* entry has another handler and is atomic.
C12_Witness ==
    /\ Running
    /\ \E k \in 1..Len(calls) :
          /\ calls[k].tag \in DOMAIN self.tags \cap DOMAIN globaltags
          /\ self.tags[calls[k].tag].func # globaltags[calls[k].tag].func
          /\ IsScoped(calls[k].node)
          /\ ~Truthy(globaltags[calls[k].tag].endtag)
          /\ calls[k].func = self.tags[calls[k].tag].func

\* The last parse call is over.
Over == Idle /\ pc # "ready"

\* An earlier call had the text and the context of the last one, and the
\* registries were at its beginning what they were at the beginning of the
\* last one, as they are when no registration is made in between.
SameCall(result) ==
    /\ result.text = text
    /\ result.context = context
    /\ result.tags = tags
    /\ result.ends = ends

\* The last call ended as every earlier call of the same text and context.
SameOutcome ==
    \A k \in 1..Len(results) :
        SameCall(results[k]) =>
            /\ results[k].output = output
            /\ results[k].error = error

\* A step of a parse call, its first one included.
ParseStep == Running \/ (Idle /\ pc' = "tokens")

\* C13: a parse call ends as the earlier calls on the same parser with the
\* same text, context and registries did: with the same output or the same
\* exception.  No step of a parse call
\* changes the global registries or the parser's, and every call begins
\* with a new root without children and new stacks.
C13_Deterministic ==
    [][ /\ Over' => SameOutcome'
        /\ ParseStep => UNCHANGED <<globaltags, globalends, self>>
        /\ (Idle /\ pc' = "tokens") =>
              /\ nodes' = <<Node>>
              /\ stack' = <<Root>>
              /\ expecting' = <<>> ]_vars

\* The second of two calls with the same text and context returned, after
\* handlers were registered and called.
C13_Witness ==
    /\ pc = "done"
    /\ Len(results) = 1
    /\ SameCall(results[1])
    /\ results[1].output # <<>>
    /\ registered > 0
    /\ calls # <<>>

\* The tag of token k, a token handled as a shortcode with content.
TagAt(k) == TagOf(Strip(Inner(self, tokens[k])))

\* Token k is handled as a shortcode, and its tag is an end-tag of this
\* call that is registered as a tag as well.
BothAt(k) ==
    /\ StartsWith(tokens[k], self.start)
    /\ Strip(Inner(self, tokens[k])) # <<>>
    /\ InList(TagAt(k), ends)
    /\ TagAt(k) \in DOMAIN tags

\* C19: a shortcode token whose tag is among the end-tags of the call is
\* processed as a closing tag, also when the name is registered as a tag:
\* it adds no node and either pops the stack and expecting or raises a
\* NestingError; no node has such a tag and no handler is called for one.
C19_EndTagFirst ==
    [][ /\ (AtShortcode /\ InList(NextTag, ends)) =>
              /\ UNCHANGED <<nodes, calls, output>>
              /\ \/ /\ pc' = "raised"
                    /\ error'.type = "NestingError"
                    /\ UNCHANGED <<stack, expecting>>
                 \/ /\ pc' = "tokens"
                    /\ expecting # <<>>
                    /\ stack' = Front(stack)
                    /\ expecting' = Front(expecting)
        /\ \A id \in 1..Len(nodes') :
              nodes'[id].kind # "Node" => ~InList(nodes'[id].tag, ends')
        /\ \A k \in 1..Len(calls') : ~InList(calls'[k].tag, ends') ]_vars

\* parse returned for a text whose block was closed by an end-tag that is
\* registered as a tag with a handler of its own.
C19_Witness ==
    /\ pc = "done"
    /\ calls # <<>>
    /\ \E k \in 1..Len(tokens) : BothAt(k)

----------------------------------------------------------------------------
(* A program whose parse calls run interleaved: threads that call parse on *)
(* one parser or on parsers of their own.  The variables of a parse call   *)
(* hold the call that runs now, waiting holds the others.  All handlers    *)
(* are registered before the first call begins.                            *)

\* How many parse calls run interleaved, at most.
MaxThreads == 2

\* The local state of the call that runs now: the parser it was called on,
\* its arguments and everything parse and render keep in local variables.
Locals ==
    [self |-> self, pc |-> pc, text |-> text, context |-> context,
     tags |-> tags, ends |-> ends, tokens |-> tokens, ti |-> ti,
     nodes |-> nodes, stack |-> stack, expecting |-> expecting,
     frames |-> frames, calls |-> calls, output |-> output, error |-> error]

\* The local state of a thread that is about to call parse on parser.
NewCall(parser) ==
    [self |-> parser, pc |-> "ready", text |-> <<>>, context |-> "None",
     tags |-> EmptyDict, ends |-> <<>>, tokens |-> <<>>, ti |-> 1,
     nodes |-> <<>>, stack |-> <<>>, expecting |-> <<>>,
     frames |-> <<>>, calls |-> <<>>, output |-> None, error |-> NoError]

\* A bug: the place in the token stream is kept on the parser, so that a
\* call goes on where the call that ran before it was.
ResumedShared(call, last) == [call EXCEPT !.ti = last.ti]

\* What a call finds when it runs again after the call last: its own local
\* state, as it left it.
Resumed(call, last) == call

\* The call becomes the one that runs now.
Run(call) ==
    /\ self' = call.self
    /\ pc' = call.pc
    /\ text' = call.text
    /\ context' = call.context
    /\ tags' = call.tags
    /\ ends' = call.ends
    /\ tokens' = call.tokens
    /\ ti' = call.ti
    /\ nodes' = call.nodes
    /\ stack' = call.stack
    /\ expecting' = call.expecting
    /\ frames' = call.frames
    /\ calls' = call.calls
    /\ output' = call.output
    /\ error' = call.error

\* Handlers are registered on the parser before any call begins.
ParserRegisterFirst == waiting = <<>> /\ ParserRegister

\* A thread calls parse.
ParseThread ==
    /\ pc = "ready"
    /\ ParseCall(ShortTexts)
    /\ UNCHANGED results

\* Another thread begins, on the parser of the call that runs now or on a
\* parser of its own, while that call is at any place.
Spawn ==
    /\ Called
    /\ Len(waiting) + 1 < MaxThreads
    /\ waiting' = Append(waiting, Locals)
    /\ \E parser \in {self, Parser(DefaultStart, DefaultEnd, DefaultEsc)} :
          Run(NewCall(parser))
    /\ UNCHANGED <<globaltags, globalends, keywords, registered, results>>
    /\ UNCHANGED args_vars

\* The scheduler stops the call that runs now, at any place, and lets a
\* call that has not ended go on.
Switch ==
    /\ \E k \in 1..Len(waiting) :
          /\ waiting[k].pc \notin {"done", "raised"}
          /\ waiting' = [waiting EXCEPT ![k] = Locals]
          /\ Run(Resumed(waiting[k], Locals))
    /\ UNCHANGED <<globaltags, globalends, keywords, registered, results>>
    /\ UNCHANGED args_vars

NextThreads ==
    \/ ParserInit
    \/ ParserRegisterFirst
    \/ ParseThread
    \/ Spawn
    \/ Switch
    \/ ParseToken
    \/ ParseEnd
    \/ Render

SpecThreads == Init /\ [][NextThreads]_vars

----------------------------------------------------------------------------
(* parse as one function of its arguments and the registries: what a call  *)
(* does when nothing else runs.                                            *)

\* for token in self.tokenize(text): self.parse_token(...), from token k on,
\* until a token raises.
RECURSIVE ParseTokens(_, _, _, _, _, _)
ParseTokens(parser, toks, k, b, tgs, nds) ==
    IF k > Len(toks) \/ b.error # NoError THEN b
    ELSE ParseTokens(parser, toks, k + 1,
                     parse_token(parser, toks[k], b, tgs, nds), tgs, nds)

\* What a render call gives: the string it returns or the exception it
\* raises, and the handler calls made in it.
Rendered(value, log) ==
    [raised |-> FALSE, value |-> value, error |-> NoError, log |-> log]

Failed(exception, log) ==
    [raised |-> TRUE, value |-> <<>>, error |-> exception, log |-> log]

\* node.render(context) for the node id, and ''.join(child.render(context)
\* for child in children) from child k on, acc being the strings joined so
\* far and log the handler calls made so far.
RECURSIVE render(_, _, _, _), JoinChildren(_, _, _, _, _, _)
render(ns, id, ctx, log) ==
    LET node == ns[id]
        joined == JoinChildren(ns, node.children, 1, ctx, <<>>, log)
        call == Invoke(ns, id, ctx, IF node.kind = "ScopedShortcode"
                                    THEN joined.value ELSE <<>>)
        invoked(before) ==
            IF call.raised
            THEN Failed(RenderingError(node.tag, Exception(call.exc, "", <<>>)),
                        Append(before, call))
            ELSE Rendered(call.value, Append(before, call))
    IN  CASE node.kind = "Text" -> Rendered(node.text, log)
          [] node.kind = "Node" -> joined
          [] node.kind = "Shortcode" -> invoked(log)
          [] node.kind = "ScopedShortcode" ->
                IF joined.raised
                THEN Failed(RenderingError(node.tag, joined.error), joined.log)
                ELSE invoked(joined.log)

JoinChildren(ns, children, k, ctx, acc, log) ==
    IF k > Len(children) THEN Rendered(acc, log)
    ELSE LET child == render(ns, children[k], ctx, log)
         IN  IF child.raised THEN child
             ELSE JoinChildren(ns, children, k + 1, ctx, acc \o child.value,
                               child.log)

\* parser.parse(txt, ctx) with the global registries gtags and gends: the
\* string returned (None when it raises), the exception raised (NoError
\* when it returns) and the handler calls made.
parse(parser, gtags, gends, txt, ctx) ==
    LET tgs == Merged(gtags, parser.tags)
        nds == gends \o parser.ends
        new == NewTree([nodes |-> <<>>, stack |-> <<>>, expecting |-> <<>>])
        b == ParseTokens(parser, tokenize(parser, txt), 1,
                         [nodes |-> new.nodes, stack |-> new.stack,
                          expecting |-> new.expecting, error |-> NoError],
                         tgs, nds)
        root == render(b.nodes, Last(b.stack), ctx, <<>>)
    IN  IF b.error # NoError
        THEN [output |-> None, error |-> b.error, calls |-> <<>>]
        ELSE IF Unbalanced(b.expecting)
        THEN [output |-> None, error |-> ExpectingLast(b.expecting),
              calls |-> <<>>]
        ELSE IF root.raised
        THEN [output |-> None, error |-> root.error, calls |-> root.log]
        ELSE [output |-> root.value, error |-> NoError, calls |-> root.log]

----------------------------------------------------------------------------
(* Properties of interleaved parse calls (specification SpecThreads).      *)

\* Every call of the program: the one that runs now, then the others.
Threads == <<Locals>> \o waiting

\* The call ended.
Ended(call) == call.self # NoParser /\ call.pc \in {"done", "raised"}

\* The call ended as parse ends when it runs alone with the arguments of
\* the call: the same string or exception, after the same handler calls.
AsAlone(call) ==
    LET alone == parse(call.self, globaltags, globalends, call.text,
                       call.context)
    IN  /\ call.output = alone.output
        /\ call.error = alone.error
        /\ call.calls = alone.calls

\* The step is one of the call that runs now: it enters parse, or parse or
\* render go on; no other call is begun or resumed by it.
CallStep ==
    /\ \/ pc = "ready" /\ pc' = "tokens"
       \/ pc \in {"tokens", "render"}
    /\ Len(waiting') = Len(waiting)
    /\ \A k \in 1..Len(waiting) : waiting'[k] # Locals

\* C21: when parse calls on one parser or on several are interleaved step
\* by step, a step of a call changes neither the global registries nor the
\* tables of its parser, and nothing of the state of the other calls (their
\* stacks, expecting and nodes); and every call ends as it ends when it
\* runs alone.
C21_Isolation ==
    [][ /\ CallStep => UNCHANGED <<globaltags, globalends, self, waiting>>
        /\ UNCHANGED <<globaltags, globalends>>
        /\ \A k \in 1..(1 + Len(waiting')) :
              Ended(Threads'[k]) => AsAlone(Threads'[k]) ]_vars

\* A call on a parser with a handler of its own returned, handlers called,
\* while another call on that parser is stopped in its loop over the
\* tokens with a block open.
C21_Witness ==
    /\ Len(waiting) = 1
    /\ waiting[1].self = self
    /\ self.tags # EmptyDict
    /\ Ended(Locals)
    /\ pc = "done"
    /\ calls # <<>>
    /\ waiting[1].pc = "tokens"
    /\ waiting[1].ti > 1
    /\ waiting[1].expecting # <<>>

====
